---- MODULE Spec2Model ----
(***************************************************************************)
(* Supervisor / worker simulation of "Inter Process Communication (IPC)":  *)
(* parent.c (parentProcess), child.c (child) and common.c (helpers).       *)
(* The supervisor and every forked worker are separate processes; each     *)
(* action below is one step of one of them.  Shared state is the System V  *)
(* segment (sharedMem) and the named POSIX semaphores.                     *)
(***************************************************************************)
EXTENDS Integers, Sequences, FiniteSets, TLC

(* ------------------------------ bounds --------------------------------- *)
\* capacity M handed to parentProcess (argv[3])
M == 2
\* most Spawn/Terminate records in a configuration file over two labels
\* (files that use one label only have up to MaxCmds + 1 of them)
MaxCmds == 3
\* largest timestamp written in a configuration file
MaxTime == 1
\* most Spawn/Terminate records in the configurations of SpecCorpus
MaxCorpusCmds == 2
\* most Spawn/Terminate records in the configurations of SpecFork
MaxForkCmds == 4

(* ------------------------- program constants --------------------------- *)
MAX_LINE_SIZE == 1000

Slots == 0 .. (M - 1)
Labels == {"A", "B"}
OneLabel == {"A"}
Times == 0 .. MaxTime

(* ------------------------- configuration file -------------------------- *)
\* ConfigEntry as configInfo leaves it: a SPAWN/TERMINATE line, or an EXIT
\* line (label "EXIT", command 'E').
SpawnTermEntries(labels) ==
  [timestamp : Times, processLabel : labels, command : {"S", "T"}]
\* ("%d EXIT" reads any integer: -1 stands for the timestamps below 0)
QuitTimes == {-1} \cup Times
ExitEntries == [timestamp : QuitTimes, processLabel : {"EXIT"}, command : {"E"}]

\* the records of a file are written in non-decreasing timestamp order
Sorted(s) == \A k \in 1 .. (Len(s) - 1) : s[k].timestamp <= s[k + 1].timestamp
Bodies(n, labels) ==
  {b \in UNION {[1 .. k -> SpawnTermEntries(labels)] : k \in 0 .. n} : Sorted(b)}
\* a body alone (no EXIT line) or a body followed by one EXIT line
ConfigFiles(n, labels) ==
  Bodies(n, labels) \cup {Append(b, e) : b \in Bodies(n, labels), e \in ExitEntries}

(* ------------------------------ text file ------------------------------ *)
\* a text is a sequence of characters; a file is a text
TERMINATE == <<"T", "E", "R", "M", "I", "N", "A", "T", "E">>
Rep(c, n) == [k \in 1 .. n |-> c]
NL == "\n"
TextFiles ==
  << <<>>,
     <<"a", NL>>,
     <<"a", NL>> \o TERMINATE,
     <<"a", NL, "b">>,
     Rep("x", MAX_LINE_SIZE - 2) \o <<NL>>,
     Rep("x", MAX_LINE_SIZE) \o <<NL, "b", NL>> >>
\* the texts run with the files over two labels: empty, and one line "a"
ShortTexts == {1, 2}
\* the texts run with the files over one label: empty, and a line "a"
\* followed by a last line (no newline) that is the text TERMINATE
SentinelTexts == {1, 3}

Min(S) == CHOOSE x \in S : \A y \in S : x <= y

\* fgets(buffer, size, fp) with the stream at character pos (1-based):
\* reads up to size-1 characters, stopping after a newline or at end of file
Fgets(file, pos, size) ==
  IF pos > Len(file)
  THEN [ok |-> FALSE, buffer |-> <<>>, pos |-> pos]
  ELSE LET limit == Min({Len(file), pos + size - 2})
           nls == {k \in pos .. limit : file[k] = NL}
           last == IF nls = {} THEN limit ELSE Min(nls)
       IN [ok |-> TRUE, buffer |-> SubSeq(file, pos, last), pos |-> last + 1]

RECURSIVE CountFrom(_, _)
CountFrom(file, pos) ==
  LET r == Fgets(file, pos, MAX_LINE_SIZE)
  IN IF r.ok THEN 1 + CountFrom(file, r.pos) ELSE 0

\* lineCount(fp): rewind, count the successful fgets calls
lineCount(file) == CountFrom(file, 1)

RECURSIVE ReadLoop(_, _, _, _, _)
ReadLoop(file, pos, buffer, k, randLine) ==
  IF k > randLine THEN buffer
  ELSE LET r == Fgets(file, pos, MAX_LINE_SIZE)
       IN ReadLoop(file, r.pos, IF r.ok THEN r.buffer ELSE buffer, k + 1, randLine)

\* the first index the loop of randomLineSelection starts from
FirstLoopIndex == 0

\* randomLineSelection(fp, buffer, totalLines) for the drawn randLine:
\* rewind, then fgets for i = 0 .. randLine; buffer holds the last read
randomLineSelection(file, buffer, randLine) ==
  ReadLoop(file, 1, buffer, FirstLoopIndex, randLine)

\* what the uninitialised local `line` of parentProcess may hold
UninitLine == {<<>>, <<"?">>}

(* ------------------------------ helpers -------------------------------- *)
\* the search returning index 0 without testing children[0]
freeSlotFinderUntested(kids) == IF M > 0 THEN 0 ELSE -1

\* the search returning the last free index instead of the first
freeSlotFinderLast(kids) ==
  IF \E s \in Slots : kids[s] = 0 THEN M - 1 - Min({M - 1 - s : s \in {x \in Slots : kids[x] = 0}}) ELSE -1

\* freeSlotFinder: first index with children[i] == 0, or -1
freeSlotFinder(kids) ==
  IF \E s \in Slots : kids[s] = 0 THEN Min({s \in Slots : kids[s] = 0}) ELSE -1

\* childLabelFinder: first index whose stored label equals label, or -1
childLabelFinder(labels, label) ==
  IF \E s \in Slots : labels[s] = label
  THEN Min({s \in Slots : labels[s] = label}) ELSE -1

\* randomActiveChildrenSelection: the indices rand() may pick; {-1} if none
randomActiveChildrenSelection(kids) ==
  IF \E s \in Slots : kids[s] > 0 THEN {s \in Slots : kids[s] > 0} ELSE {-1}

\* the first EXIT entry's timestamp, or -1
QuitTimestampOf(cmds) ==
  IF \E k \in 1 .. Len(cmds) : cmds[k].command = "E"
  THEN cmds[Min({k \in 1 .. Len(cmds) : cmds[k].command = "E"})].timestamp
  ELSE -1

(* ------------------------------- state --------------------------------- *)
VARIABLES
  commands,          \* parsed configuration file (configInfo's result)
  text_file,         \* index into TextFiles of the text file
  pc,                \* where parentProcess is
  quitTimestamp, numOfLinesInText, currTime, i, childIndx,
  children, childLabels, childSemArr, activationTime, terminationTime,
  activeChildren,
  sharedMem,         \* [activeChildIndx, endsInTimestamp, sharedSpace]
  semaphores,        \* value of /semaphore_<i>
  parentNotificationSemaphore,
  ipcOpen,           \* the segment and the semaphores exist
  workers,           \* pid -> state of the forked child
  ipcObjects,        \* the named objects that exist in the system
  warnings,          \* number of "Warning: Terminate command ..." lines
  error,             \* the diagnostic of a fatal error ("" if none)
  hist               \* observation of the run (never read by the program)

inputVars == <<commands, text_file>>
loopVars == <<quitTimestamp, numOfLinesInText, currTime, i, childIndx>>
tableVars == <<children, childLabels, childSemArr, activationTime, terminationTime,
               activeChildren>>
ipcVars == <<sharedMem, semaphores, parentNotificationSemaphore, ipcOpen, ipcObjects>>
vars == <<inputVars, pc, loopVars, tableVars, ipcVars, workers, warnings, error, hist>>

Pids == DOMAIN workers
Live(p) == workers[p].pc \in {"wait", "read", "ack", "ackT"}

\* the named objects of the run: the segment of key ("shmfile", 65), the
\* semaphores /semaphore_<i> and /parent_notification
NoObjects == [shm |-> FALSE, sems |-> {}, ack |-> FALSE]

NoSend == [kind |-> "none", slot |-> -1, tick |-> -1, payload |-> <<>>, pid |-> 0]

InitCommon ==
  /\ pc = "start"
  /\ quitTimestamp = -1 /\ numOfLinesInText = 0 /\ currTime = 0 /\ i = 0
  /\ childIndx = -1
  /\ children = [s \in Slots |-> 0]
  /\ childLabels = [s \in Slots |-> ""]
  /\ childSemArr = [s \in Slots |-> -1]
  /\ activationTime = [s \in Slots |-> -1]
  /\ terminationTime = [s \in Slots |-> -1]
  /\ activeChildren = 0
  /\ sharedMem = [activeChildIndx |-> -1, endsInTimestamp |-> -1, sharedSpace |-> <<>>]
  /\ semaphores = [s \in Slots |-> 0]
  /\ parentNotificationSemaphore = 0
  /\ ipcOpen = FALSE
  /\ ipcObjects = NoObjects
  /\ workers = <<>>
  /\ warnings = 0
  /\ error = ""
  /\ hist = [writes |-> 0, posts |-> 0, acks |-> 0, ticks |-> <<>>, applied |-> {},
             skipped |-> {}, forkFailed |-> {},
             tickDeliveries |-> 0, lastSend |-> NoSend,
             delivered |-> <<>>]

Init ==
  /\ \/ commands \in ConfigFiles(MaxCmds, Labels) /\ text_file \in ShortTexts
     \/ commands \in ConfigFiles(MaxCmds + 1, OneLabel) /\ text_file \in SentinelTexts
  /\ InitCommon

InitFork ==
  /\ commands \in ConfigFiles(MaxForkCmds, OneLabel)
  /\ text_file \in ShortTexts
  /\ InitCommon

InitCorpus ==
  /\ commands \in ConfigFiles(MaxCorpusCmds, OneLabel)
  /\ text_file \in 1 .. Len(TextFiles)
  /\ InitCommon


(* ----------------------------- supervisor ------------------------------ *)
\* the loop going on at the last entry of tick t instead of the next one
NextEntryLast(k, t) ==
  LET same == {j \in k .. (Len(commands) - 1) : commands[j + 1].timestamp = t}
  IN IF same = {} THEN Len(commands) ELSE -Min({-j : j \in same})

\* the inner loop `for (i = 0; i < numOfConfigLines; ++i)` run on from index
\* k at tick t: entries with another timestamp are passed without effect,
\* so the loop stands at the next entry of tick t, or at the end of the file
NextEntry(k, t) ==
  LET same == {j \in k .. (Len(commands) - 1) : commands[j + 1].timestamp = t}
  IN IF same = {} THEN Len(commands) ELSE Min(same)

\* the loop bound written with < for <=
LoopStopsEarly(t, q) == t < q

\* `for (currTime = 0; currTime <= quitTimestamp; ++currTime)`
LoopContinues(t, q) == t <= q

\* head of the tick loop for tick t: run the tick, or leave the loop
EnterTick(t, q, h) ==
  IF LoopContinues(t, q)
  THEN /\ pc' = "scan" /\ currTime' = t /\ i' = NextEntry(0, t)
       /\ hist' = [h EXCEPT !.ticks = Append(@, t), !.tickDeliveries = 0]
  ELSE /\ pc' = "drain" /\ currTime' = t /\ i' = 0
       /\ hist' = h

\* no 'E' entry: "EXIT command not found", exit(EXIT_FAILURE)
MissingQuit ==
  /\ pc = "start"
  /\ QuitTimestampOf(commands) = -1
  /\ pc' = "failed"
  /\ error' = "EXIT command not found"
  /\ UNCHANGED <<inputVars, loopVars, tableVars, ipcVars, workers, warnings, hist>>

\* fopen(text_file, "r") returns NULL: perror, exit(EXIT_FAILURE)
FopenFails ==
  /\ pc = "start"
  /\ QuitTimestampOf(commands) # -1
  /\ pc' = "failed"
  /\ error' = "Failed to open text file"
  /\ quitTimestamp' = QuitTimestampOf(commands)
  /\ UNCHANGED <<inputVars, numOfLinesInText, currTime, i, childIndx, tableVars,
                 ipcVars, workers, warnings, hist>>

\* sharedMemSetup exits: shmget fails (no segment), or shmat fails (the
\* segment has been created); perror, exit(EXIT_FAILURE)
SharedMemSetupFails ==
  /\ pc = "start"
  /\ QuitTimestampOf(commands) # -1
  /\ pc' = "failed"
  /\ \/ /\ error' = "Failed to create shared memory"
        /\ ipcObjects' = ipcObjects
     \/ /\ error' = "Failed to attach shared memory"
        /\ ipcObjects' = [ipcObjects EXCEPT !.shm = TRUE]
  /\ quitTimestamp' = QuitTimestampOf(commands)
  /\ numOfLinesInText' = lineCount(TextFiles[text_file])
  /\ UNCHANGED <<inputVars, currTime, i, childIndx, tableVars, sharedMem, semaphores,
                 parentNotificationSemaphore, ipcOpen, workers, warnings, hist>>

\* semInit exits at its k-th sem_open (k = M: the one of
\* /parent_notification): the segment and the semaphores opened before it
\* exist; perror, exit(EXIT_FAILURE)
SemInitFails ==
  /\ pc = "start"
  /\ QuitTimestampOf(commands) # -1
  /\ pc' = "failed"
  /\ \E k \in 0 .. M :
       /\ error' = IF k < M THEN "Failed to create semaphore"
                    ELSE "Failed to create parent notification semaphore"
       /\ ipcObjects' = [shm |-> TRUE, sems |-> 0 .. (k - 1), ack |-> FALSE]
  /\ quitTimestamp' = QuitTimestampOf(commands)
  /\ numOfLinesInText' = lineCount(TextFiles[text_file])
  /\ sharedMem' = [activeChildIndx |-> -1, endsInTimestamp |-> -1, sharedSpace |-> <<>>]
  /\ UNCHANGED <<inputVars, currTime, i, childIndx, tableVars, semaphores,
                 parentNotificationSemaphore, ipcOpen, workers, warnings, hist>>

\* quitTimestamp found: open the text, count its lines, sharedMemSetup,
\* semInit, activeChildren = 0, enter the tick loop
Setup ==
  /\ pc = "start"
  /\ QuitTimestampOf(commands) # -1
  /\ quitTimestamp' = QuitTimestampOf(commands)
  /\ numOfLinesInText' = lineCount(TextFiles[text_file])
  /\ sharedMem' = [activeChildIndx |-> -1, endsInTimestamp |-> -1, sharedSpace |-> <<>>]
  /\ semaphores' = [s \in Slots |-> 0]
  /\ parentNotificationSemaphore' = 0
  /\ ipcOpen' = TRUE
  /\ ipcObjects' = [shm |-> TRUE, sems |-> Slots, ack |-> TRUE]
  /\ activeChildren' = 0
  /\ EnterTick(0, QuitTimestampOf(commands), hist)
  /\ UNCHANGED <<inputVars, childIndx, children, childLabels, childSemArr,
                 activationTime, terminationTime, workers, warnings, error>>

\* the Terminate branch written as a plain `else`
CommandBranchPlainElse(cmd, t, active) ==
  IF cmd.timestamp # t THEN "skip"
  ELSE IF cmd.command = "S" /\ active < M THEN "spawn"
  ELSE "terminate"

\* which branch of the loop body an entry takes at tick t
CommandBranch(cmd, t, active) ==
  IF cmd.timestamp # t THEN "skip"
  ELSE IF cmd.command = "S" /\ active < M THEN "spawn"
  ELSE IF cmd.command = "T" THEN "terminate"
  ELSE "none"

AtCommand == pc = "scan" /\ i < Len(commands)
Cmd == commands[i + 1]
Branch == CommandBranch(Cmd, currTime, activeChildren)

\* an entry of this tick that takes no branch: a Spawn at full capacity, or
\* an EXIT entry
SkipCommand ==
  /\ AtCommand
  /\ Branch \in {"skip", "none"}
  /\ i' = NextEntry(i + 1, currTime)
  /\ hist' = [hist EXCEPT !.skipped = @ \cup {[idx |-> i + 1, tick |-> currTime]}]
  /\ UNCHANGED <<inputVars, pc, quitTimestamp, numOfLinesInText, currTime, childIndx,
                 tableVars, ipcVars, workers, warnings, error>>

\* the child handed the tick after the one it was spawned at
NewWorkerNextTick(slot, t) ==
  [pc |-> "wait", M_requests |-> slot, activation_time |-> t + 1, lineCntr |-> 0,
   endsInTimestamp |-> -1, log |-> <<>>, summary |-> <<>>, readSeq |-> 0]

\* the child as fork() starts it: child(semaphores, freeSlot, sharedMem, currTime, ..)
NewWorker(slot, t) ==
  [pc |-> "wait", M_requests |-> slot, activation_time |-> t, lineCntr |-> 0,
   endsInTimestamp |-> -1, log |-> <<>>, summary |-> <<>>, readSeq |-> 0]

\* Spawn below capacity: freeSlotFinder, fork, record the child
Spawn ==
  /\ AtCommand
  /\ Branch = "spawn"
  /\ LET freeSlot == freeSlotFinder(children)
         pid == Len(workers) + 1
     IN IF freeSlot # -1
        THEN /\ workers' = Append(workers, NewWorker(freeSlot, currTime))
             /\ children' = [children EXCEPT ![freeSlot] = pid]
             /\ childLabels' = [childLabels EXCEPT ![freeSlot] = Cmd.processLabel]
             /\ childSemArr' = [childSemArr EXCEPT ![freeSlot] = freeSlot]
             /\ activationTime' = [activationTime EXCEPT ![freeSlot] = currTime]
             /\ activeChildren' = activeChildren + 1
             /\ hist' = [hist EXCEPT !.applied = @ \cup {[idx |-> i + 1, tick |-> currTime]},
                                     !.delivered = Append(@, 0)]
        ELSE /\ UNCHANGED <<workers, children, childLabels, childSemArr,
                            activationTime, activeChildren>>
             /\ hist' = [hist EXCEPT !.applied = @ \cup {[idx |-> i + 1, tick |-> currTime]}]
  /\ i' = NextEntry(i + 1, currTime)
  /\ UNCHANGED <<inputVars, pc, quitTimestamp, numOfLinesInText, currTime, childIndx,
                 terminationTime, ipcVars, warnings, error>>

\* Spawn below capacity, fork() returns -1: neither branch of the test on
\* child_pid is taken, nothing is recorded
SpawnForkFails ==
  /\ AtCommand
  /\ Branch = "spawn"
  /\ freeSlotFinder(children) # -1
  /\ i' = NextEntry(i + 1, currTime)
  /\ hist' = [hist EXCEPT !.applied = @ \cup {[idx |-> i + 1, tick |-> currTime]},
                          !.forkFailed = @ \cup {[idx |-> i + 1, tick |-> currTime]}]
  /\ UNCHANGED <<inputVars, pc, quitTimestamp, numOfLinesInText, currTime, childIndx,
                 tableVars, ipcVars, workers, warnings, error>>

\* Terminate, label found: write the TERMINATE message into the segment
TerminateSend ==
  /\ AtCommand
  /\ Branch = "terminate"
  /\ LET idx == childLabelFinder(childLabels, Cmd.processLabel)
     IN /\ idx # -1
        /\ terminationTime' = [terminationTime EXCEPT ![idx] = currTime]
        /\ sharedMem' = [sharedMem EXCEPT !.endsInTimestamp = currTime,
                                          !.sharedSpace = TERMINATE]
        /\ childIndx' = idx
        /\ hist' = [hist EXCEPT !.writes = @ + 1,
                                !.applied = @ \cup {[idx |-> i + 1, tick |-> currTime]},
                                !.lastSend = [kind |-> "terminate", slot |-> idx,
                                              tick |-> currTime, payload |-> TERMINATE,
                                              pid |-> children[idx]]]
  /\ pc' = "t_post"
  /\ UNCHANGED <<inputVars, quitTimestamp, numOfLinesInText, currTime, i,
                 children, childLabels, childSemArr, activationTime, activeChildren,
                 semaphores, parentNotificationSemaphore, ipcOpen, ipcObjects, workers, warnings, error>>

\* Terminate, label not found: print the warning
TerminateWarn ==
  /\ AtCommand
  /\ Branch = "terminate"
  /\ childLabelFinder(childLabels, Cmd.processLabel) = -1
  /\ warnings' = warnings + 1
  /\ i' = NextEntry(i + 1, currTime)
  /\ hist' = [hist EXCEPT !.applied = @ \cup {[idx |-> i + 1, tick |-> currTime]}]
  /\ UNCHANGED <<inputVars, pc, quitTimestamp, numOfLinesInText, currTime, childIndx,
                 tableVars, ipcVars, workers, error>>

\* the supervisor posting the semaphore twice for one message
PostSlotTwice(k) ==
  /\ semaphores' = [semaphores EXCEPT ![k] = @ + 2]
  /\ hist' = [hist EXCEPT !.posts = @ + 1]

\* sem_post(semaphores[k]) by the supervisor
PostSlot(k) ==
  /\ semaphores' = [semaphores EXCEPT ![k] = @ + 1]
  /\ hist' = [hist EXCEPT !.posts = @ + 1]

\* the supervisor not waiting for the acknowledgment
AckNotAwaited == TRUE

\* sem_wait(parentNotificationSemaphore) can return
AckReceived == parentNotificationSemaphore > 0

\* the supervisor going on without waiting for the child to end
WaitpidNotAwaited(pid, after) == after = workers

\* waitpid(pid, NULL, 0) returns, leaving the children as `after`.  pid 0
\* waits for any child of the process group (none left: returns at once).
Waitpid(pid, after) ==
  IF pid > 0
  THEN /\ workers[pid].pc = "exited"
       /\ after = [workers EXCEPT ![pid].pc = "reaped"]
  ELSE IF \E p \in Pids : workers[p].pc = "exited"
       THEN \E p \in {x \in Pids : workers[x].pc = "exited"} :
               after = [workers EXCEPT ![p].pc = "reaped"]
       ELSE /\ \A p \in Pids : workers[p].pc = "reaped"
            /\ after = workers

TerminatePost ==
  /\ pc = "t_post"
  /\ PostSlot(childIndx)
  /\ pc' = "t_wait"
  /\ UNCHANGED <<inputVars, loopVars, tableVars, sharedMem, parentNotificationSemaphore,
                 ipcOpen, ipcObjects, workers, warnings, error>>

TerminateWaitAck ==
  /\ pc = "t_wait"
  /\ AckReceived
  /\ parentNotificationSemaphore' = parentNotificationSemaphore - 1
  /\ pc' = "t_waitpid"
  /\ UNCHANGED <<inputVars, loopVars, tableVars, sharedMem, semaphores, ipcOpen, ipcObjects,
                 workers, warnings, error, hist>>

\* waitpid on the child, then free the slot and count it out
TerminateWaitpid ==
  /\ pc = "t_waitpid"
  /\ Waitpid(children[childIndx], workers')
  /\ children' = [children EXCEPT ![childIndx] = 0]
  /\ activeChildren' = activeChildren - 1
  /\ i' = NextEntry(i + 1, currTime)
  /\ pc' = "scan"
  /\ UNCHANGED <<inputVars, quitTimestamp, numOfLinesInText, currTime, childIndx,
                 childLabels, childSemArr, activationTime, terminationTime,
                 ipcVars, warnings, error, hist>>

\* every entry of the file has been looked at for this tick
EndScan ==
  /\ pc = "scan"
  /\ i >= Len(commands)
  /\ pc' = "deliver"
  /\ UNCHANGED <<inputVars, loopVars, tableVars, ipcVars, workers, warnings, error, hist>>

\* the delivery guard off by one: `activeChildren > 1`
DeliveryDueOffByOne(active, candidates, n) == active > 1 /\ candidates # {-1} /\ n > 0

\* `activeChildren > 0`, then `randChildIndx != -1 && numOfLinesInText > 0`
DeliveryDue(active, candidates, n) == active > 0 /\ candidates # {-1} /\ n > 0

\* draw a child and a line, write the line into the segment
Deliver ==
  /\ pc = "deliver"
  /\ DeliveryDue(activeChildren, randomActiveChildrenSelection(children), numOfLinesInText)
  /\ \E randChildIndx \in randomActiveChildrenSelection(children) :
     \E randLine \in 0 .. (numOfLinesInText - 1) :
     \E garbage \in UninitLine :
       LET line == randomLineSelection(TextFiles[text_file], garbage, randLine)
       IN /\ sharedMem' = [activeChildIndx |-> randChildIndx,
                           endsInTimestamp |-> currTime,
                           sharedSpace |-> line]
          /\ childIndx' = randChildIndx
          /\ hist' = [hist EXCEPT !.writes = @ + 1,
                                  !.tickDeliveries = @ + 1,
                                  !.delivered[children[randChildIndx]] = @ + 1,
                                  !.lastSend = [kind |-> "line", slot |-> randChildIndx,
                                                tick |-> currTime, payload |-> line,
                                                pid |-> children[randChildIndx]]]
  /\ pc' = "d_post"
  /\ UNCHANGED <<inputVars, quitTimestamp, numOfLinesInText, currTime, i, tableVars,
                 semaphores, parentNotificationSemaphore, ipcOpen, ipcObjects, workers, warnings, error>>

\* nobody active (or no line to send): straight to the next tick
NoDelivery ==
  /\ pc = "deliver"
  /\ ~DeliveryDue(activeChildren, randomActiveChildrenSelection(children), numOfLinesInText)
  /\ EnterTick(currTime + 1, quitTimestamp, hist)
  /\ UNCHANGED <<inputVars, quitTimestamp, numOfLinesInText, childIndx, tableVars,
                 ipcVars, workers, warnings, error>>

DeliverPost ==
  /\ pc = "d_post"
  /\ PostSlot(childIndx)
  /\ pc' = "d_wait"
  /\ UNCHANGED <<inputVars, loopVars, tableVars, sharedMem, parentNotificationSemaphore,
                 ipcOpen, ipcObjects, workers, warnings, error>>

DeliverWaitAck ==
  /\ pc = "d_wait"
  /\ AckReceived
  /\ parentNotificationSemaphore' = parentNotificationSemaphore - 1
  /\ EnterTick(currTime + 1, quitTimestamp, hist)
  /\ UNCHANGED <<inputVars, quitTimestamp, numOfLinesInText, childIndx, tableVars,
                 sharedMem, semaphores, ipcOpen, ipcObjects, workers, warnings, error>>

\* final loop over the slots: a free slot is passed over
DrainSkip ==
  /\ pc = "drain"
  /\ i < M
  /\ ~(children[i] > 0)
  /\ i' = i + 1
  /\ UNCHANGED <<inputVars, pc, quitTimestamp, numOfLinesInText, currTime, childIndx,
                 tableVars, ipcVars, workers, warnings, error, hist>>

\* final loop: write TERMINATE for a child still running
DrainSend ==
  /\ pc = "drain"
  /\ i < M
  /\ children[i] > 0
  /\ terminationTime' = [terminationTime EXCEPT ![i] = quitTimestamp]
  /\ sharedMem' = [sharedMem EXCEPT !.endsInTimestamp = quitTimestamp,
                                    !.sharedSpace = TERMINATE]
  /\ hist' = [hist EXCEPT !.writes = @ + 1,
                          !.lastSend = [kind |-> "drain", slot |-> i,
                                        tick |-> quitTimestamp, payload |-> TERMINATE,
                                        pid |-> children[i]]]
  /\ pc' = "x_post"
  /\ UNCHANGED <<inputVars, loopVars, children, childLabels, childSemArr, activationTime,
                 activeChildren, semaphores, parentNotificationSemaphore, ipcOpen, ipcObjects,
                 workers, warnings, error>>

DrainPost ==
  /\ pc = "x_post"
  /\ PostSlot(i)
  /\ pc' = "x_wait"
  /\ UNCHANGED <<inputVars, loopVars, tableVars, sharedMem, parentNotificationSemaphore,
                 ipcOpen, ipcObjects, workers, warnings, error>>

DrainWaitAck ==
  /\ pc = "x_wait"
  /\ AckReceived
  /\ parentNotificationSemaphore' = parentNotificationSemaphore - 1
  /\ pc' = "x_waitpid"
  /\ UNCHANGED <<inputVars, loopVars, tableVars, sharedMem, semaphores, ipcOpen, ipcObjects,
                 workers, warnings, error, hist>>

\* final loop: waitpid on the child; the slot table is left as it is
DrainWaitpid ==
  /\ pc = "x_waitpid"
  /\ Waitpid(children[i], workers')
  /\ i' = i + 1
  /\ pc' = "drain"
  /\ UNCHANGED <<inputVars, quitTimestamp, numOfLinesInText, currTime, childIndx,
                 tableVars, ipcVars, warnings, error, hist>>

\* rescourceCleanup, fclose, free: normal end
\* rescourceCleanup without the sem_unlink of /parent_notification
rescourceCleanupKeepsAck(objs) == [shm |-> FALSE, sems |-> {}, ack |-> objs.ack]

\* rescourceCleanup: IPC_RMID on the segment, sem_unlink of every
\* /semaphore_<i> and of /parent_notification
rescourceCleanup(objs) == [shm |-> FALSE, sems |-> objs.sems \ Slots, ack |-> FALSE]

Cleanup ==
  /\ pc = "drain"
  /\ i >= M
  /\ ipcOpen' = FALSE
  /\ ipcObjects' = rescourceCleanup(ipcObjects)
  /\ pc' = "done"
  /\ UNCHANGED <<inputVars, loopVars, tableVars, sharedMem, semaphores,
                 parentNotificationSemaphore, workers, warnings, error, hist>>

(* ------------------------------- worker -------------------------------- *)
\* the worker not waiting for its semaphore
SignalNotAwaited(slot) == TRUE

\* sem_wait(seg_semaphores[M_requests]) can return
Signalled(slot) == semaphores[slot] > 0

ChildSemWait(p) ==
  /\ workers[p].pc = "wait"
  /\ Signalled(workers[p].M_requests)
  /\ semaphores' = [semaphores EXCEPT ![workers[p].M_requests] = @ - 1]
  /\ workers' = [workers EXCEPT ![p].pc = "read"]
  /\ UNCHANGED <<inputVars, pc, loopVars, tableVars, sharedMem,
                 parentNotificationSemaphore, ipcOpen, ipcObjects, warnings, error, hist>>

\* the test taking every message for the TERMINATE message
IsTerminateMessageAlways(text) == TRUE

\* strcmp(sharedMem->sharedSpace, "TERMINATE") == 0
IsTerminateMessage(text) == text = TERMINATE

\* the worker emptying the segment's text once it has read it
ChildReadClearsSegment(p) ==
  /\ workers[p].pc = "read"
  /\ workers' = [workers EXCEPT
                   ![p].log = Append(@, [kind |-> IF IsTerminateMessage(sharedMem.sharedSpace)
                                                  THEN "terminate" ELSE "message",
                                         tick |-> sharedMem.endsInTimestamp,
                                         payload |-> sharedMem.sharedSpace]),
                   ![p].endsInTimestamp = IF IsTerminateMessage(sharedMem.sharedSpace)
                                          THEN sharedMem.endsInTimestamp ELSE @,
                   ![p].lineCntr = IF IsTerminateMessage(sharedMem.sharedSpace)
                                   THEN @ ELSE @ + 1,
                   ![p].readSeq = hist.writes,
                   ![p].pc = IF IsTerminateMessage(sharedMem.sharedSpace)
                             THEN "ackT" ELSE "ack"]
  /\ sharedMem' = [sharedMem EXCEPT !.sharedSpace = <<>>]
  /\ UNCHANGED <<inputVars, pc, loopVars, tableVars, semaphores,
                 parentNotificationSemaphore, ipcOpen, ipcObjects, warnings, error, hist>>

\* the body of the loop up to the sem_post: log the message; on TERMINATE
\* keep its timestamp, otherwise count the line
ChildRead(p) ==
  /\ workers[p].pc = "read"
  /\ workers' =
       IF IsTerminateMessage(sharedMem.sharedSpace)
       THEN [workers EXCEPT
               ![p].log = Append(@, [kind |-> "terminate",
                                     tick |-> sharedMem.endsInTimestamp,
                                     payload |-> sharedMem.sharedSpace]),
               ![p].endsInTimestamp = sharedMem.endsInTimestamp,
               ![p].readSeq = hist.writes,
               ![p].pc = "ackT"]
       ELSE [workers EXCEPT
               ![p].log = Append(@, [kind |-> "message",
                                     tick |-> sharedMem.endsInTimestamp,
                                     payload |-> sharedMem.sharedSpace]),
               ![p].lineCntr = @ + 1,
               ![p].readSeq = hist.writes,
               ![p].pc = "ack"]
  /\ UNCHANGED <<inputVars, pc, loopVars, tableVars, ipcVars, warnings, error, hist>>

\* sem_post(parentNotificationSemaphore); after TERMINATE, break
ChildAck(p) ==
  /\ workers[p].pc \in {"ack", "ackT"}
  /\ parentNotificationSemaphore' = parentNotificationSemaphore + 1
  /\ workers' = [workers EXCEPT ![p].pc = IF @ = "ackT" THEN "summary" ELSE "wait"]
  /\ hist' = [hist EXCEPT !.acks = @ + 1]
  /\ UNCHANGED <<inputVars, pc, loopVars, tableVars, sharedMem, semaphores, ipcOpen, ipcObjects,
                 warnings, error>>

\* after the loop: the summary line (if a timestamp was kept), fclose, exit
ChildExit(p) ==
  /\ workers[p].pc = "summary"
  /\ workers' =
       [workers EXCEPT
          ![p].summary =
             IF workers[p].endsInTimestamp >= 0
             THEN <<[lines |-> workers[p].lineCntr,
                     endTick |-> workers[p].endsInTimestamp,
                     activationTick |-> workers[p].activation_time,
                     timeActive |-> workers[p].endsInTimestamp
                                      - workers[p].activation_time]>>
             ELSE <<>>,
          ![p].pc = "exited"]
  /\ UNCHANGED <<inputVars, pc, loopVars, tableVars, ipcVars, warnings, error, hist>>

(* --------------------------- specifications ---------------------------- *)
Next ==
  \/ MissingQuit
  \/ FopenFails
  \/ SharedMemSetupFails
  \/ SemInitFails
  \/ Setup
  \/ SkipCommand
  \/ Spawn
  \/ TerminateSend
  \/ TerminateWarn
  \/ TerminatePost
  \/ TerminateWaitAck
  \/ TerminateWaitpid
  \/ EndScan
  \/ Deliver
  \/ NoDelivery
  \/ DeliverPost
  \/ DeliverWaitAck
  \/ DrainSkip
  \/ DrainSend
  \/ DrainPost
  \/ DrainWaitAck
  \/ DrainWaitpid
  \/ Cleanup
  \/ \E p \in Pids : ChildSemWait(p)
  \/ \E p \in Pids : ChildRead(p)
  \/ \E p \in Pids : ChildAck(p)
  \/ \E p \in Pids : ChildExit(p)

Spec == Init /\ [][Next]_vars

\* same program, with fork() allowed to fail, on configurations over one label
NextFork == Next \/ SpawnForkFails
SpecFork == InitFork /\ [][NextFork]_vars

\* same program, run on the long-line texts with short configurations
SpecCorpus == InitCorpus /\ [][Next]_vars


(* ------------------------------- claims -------------------------------- *)
\* a step of the supervisor (its position changes at every step it takes)
ParentStep == <<pc, i, currTime>>' # <<pc, i, currTime>>
\* the supervisor stands at an entry of the current tick with this command
AtEntry(c) == AtCommand /\ Cmd.timestamp = currTime /\ Cmd.command = c
\* slot s is inside the supervisor's Terminate or drain handshake
InHandshake(s) ==
  \/ pc \in {"t_post", "t_wait", "t_waitpid"} /\ childIndx = s
  \/ pc \in {"x_post", "x_wait", "x_waitpid"} /\ i = s
\* C1: at most one send in flight. Counting the supervisor's writes of the
\* segment, its posts on per-slot semaphores and the workers' posts on the
\* acknowledgment semaphore, every post follows its write, every
\* acknowledgment follows its post, and no second write or post happens
\* before the acknowledgment of the previous one.
C1_AtMostOneInFlight ==
  /\ hist.acks <= hist.posts
  /\ hist.posts <= hist.writes
  /\ hist.writes - hist.acks <= 1

\* a second message written and posted while the first is acknowledged
C1_Witness ==
  /\ hist.writes >= 2
  /\ hist.posts = hist.writes
  /\ hist.acks = hist.writes - 1

\* C2: handoff ordering. A worker that has been woken (about to read, or
\* having read and not yet acknowledged) works on the latest message and no
\* later message has been written: the segment still holds what the
\* supervisor wrote for that send, that send was posted to the worker's own
\* slot, and what the worker logged is the payload and tick of that send.
C2_HandoffOrdering ==
  \A p \in Pids :
    /\ workers[p].pc \in {"read", "ack", "ackT"} =>
         /\ hist.writes = hist.acks + 1
         /\ hist.posts = hist.writes
         /\ hist.lastSend.slot = workers[p].M_requests
         /\ sharedMem.sharedSpace = hist.lastSend.payload
         /\ sharedMem.endsInTimestamp = hist.lastSend.tick
    /\ workers[p].pc \in {"ack", "ackT"} =>
         /\ workers[p].readSeq = hist.writes
         /\ workers[p].log # <<>>
         /\ workers[p].log[Len(workers[p].log)].payload = hist.lastSend.payload
         /\ workers[p].log[Len(workers[p].log)].tick = hist.lastSend.tick

\* a worker has read the second message of the run, a line
C2_Witness ==
  \E p \in Pids :
    /\ workers[p].pc = "ack"
    /\ workers[p].readSeq >= 2
    /\ hist.lastSend.kind = "line"

\* C3: exactly-once delivery. Whenever no send is in flight every worker has
\* counted exactly the line deliveries addressed to its slot while it held
\* it, and the count in a worker's summary equals that number.
C3_ExactlyOnce ==
  \A p \in Pids :
    /\ hist.writes = hist.acks => workers[p].lineCntr = hist.delivered[p]
    /\ workers[p].summary # <<>> => workers[p].summary[1].lines = hist.delivered[p]

C5_TerminateInactiveNoChange ==
  [][(/\ AtEntry("T")
      /\ ~\E s \in Slots : children[s] # 0 /\ childLabels[s] = Cmd.processLabel
      /\ ParentStep)
     => /\ UNCHANGED <<tableVars, ipcVars>>
        /\ warnings' = warnings + 1
        /\ pc' = "scan" /\ i' = NextEntry(i + 1, currTime)]_vars

\* C6: a Terminate at tick t whose label an active slot with a live worker
\* holds sends the TERMINATE message stamped t to such a slot; and when the
\* supervisor's waitpid returns, that worker has logged
\* terminationTime - activationTime as its active time, the slot is free
\* and the active count is one less.
C6_TerminateActive ==
  /\ [][(/\ AtEntry("T")
         /\ \E s \in Slots : /\ children[s] # 0
                             /\ childLabels[s] = Cmd.processLabel
                             /\ Live(children[s])
         /\ ParentStep)
        => /\ pc' = "t_post"
           /\ sharedMem'.sharedSpace = TERMINATE
           /\ sharedMem'.endsInTimestamp = currTime
           /\ children[childIndx'] # 0
           /\ childLabels[childIndx'] = Cmd.processLabel
           /\ Live(children[childIndx'])]_vars
  /\ [][(pc = "t_waitpid" /\ ParentStep)
        => /\ children[childIndx] # 0
           /\ workers[children[childIndx]].summary # <<>>
           /\ workers[children[childIndx]].summary[1].timeActive
                = terminationTime[childIndx] - activationTime[childIndx]
           /\ workers[children[childIndx]].summary[1].endTick = currTime
           /\ children'[childIndx] = 0
           /\ activeChildren' = activeChildren - 1]_vars

\* C7: a Spawn met while the active count equals M changes nothing: the
\* slot table, the active count, the segment, the semaphores and the set of
\* workers stay as they are, and the supervisor goes on to the next entry.
C7_SpawnAtCapacityNoChange ==
  [][(AtEntry("S") /\ activeChildren = M /\ ParentStep)
     => /\ UNCHANGED <<tableVars, sharedMem, semaphores, parentNotificationSemaphore,
                       warnings, error>>
        /\ Len(workers') = Len(workers)
        /\ pc' = "scan" /\ i' = NextEntry(i + 1, currTime)]_vars

\* a Spawn of the current tick has been passed over at full capacity
C7_Witness ==
  /\ pc = "scan"
  /\ activeChildren = M
  /\ \E a \in hist.skipped : a.tick = currTime /\ commands[a.idx].command = "S"

\* while a line delivery is under way: it is this tick's only one, goes to a
\* slot with a non-empty handle and carries the tick as its stamp
DeliveryShape ==
  pc \in {"d_post", "d_wait"} =>
    /\ hist.tickDeliveries = 1
    /\ hist.lastSend.kind = "line"
    /\ children[hist.lastSend.slot] > 0
    /\ sharedMem = [activeChildIndx |-> hist.lastSend.slot,
                    endsInTimestamp |-> currTime,
                    sharedSpace |-> hist.lastSend.payload]

\* the tick ends with `due` deliveries made, acknowledged if one was made
TickEndsWith(due) ==
  currTime' = currTime + 1 =>
    /\ hist.tickDeliveries = due
    /\ hist.writes = hist.acks
    /\ hist.tickDeliveries = 1 => pc = "d_wait" /\ parentNotificationSemaphore > 0

\* C8 as stated: every tick with an active count > 0 makes exactly one line
\* delivery (to an active slot, stamped with the tick, acknowledged before
\* the tick ends), every tick with an active count of 0 makes none.
C8_OneDeliveryPerTick ==
  /\ []DeliveryShape
  /\ [][TickEndsWith(IF activeChildren > 0 THEN 1 ELSE 0)]_vars

\* C8 amended: every tick with an active count > 0 and a text of at least
\* one line makes exactly one line delivery (to an active slot, stamped with
\* the tick, acknowledged before the tick ends); a tick with an active count
\* of 0, or with an empty text, makes none.
C8_OneDeliveryPerTickIfText ==
  /\ []DeliveryShape
  /\ [][TickEndsWith(IF activeChildren > 0 /\ numOfLinesInText > 0 THEN 1 ELSE 0)]_vars

\* a tick has ended after its line delivery was acknowledged
C8_Witness ==
  /\ pc = "scan"
  /\ currTime >= 1
  /\ hist.lastSend.kind = "line"
  /\ hist.lastSend.tick = currTime - 1
  /\ hist.writes = hist.acks

\* the lines of a text: from the start or the character after a newline, up
\* to and including the next newline (or the end of the text)
LineStarts(file) == {k \in 1 .. Len(file) : k = 1 \/ file[k - 1] = NL}
LinesOf(file) == {Fgets(file, a, Len(file) + 2).buffer : a \in LineStarts(file)}

\* C9: the payload of every line delivery, as written into the segment and
\* as logged by the worker that read it, is a line of the text file.
C9_PayloadIsCorpusLine ==
  /\ pc \in {"d_post", "d_wait"} => sharedMem.sharedSpace \in LinesOf(TextFiles[text_file])
  /\ \A p \in Pids : \A k \in 1 .. Len(workers[p].log) :
       workers[p].log[k].kind = "message" =>
         workers[p].log[k].payload \in LinesOf(TextFiles[text_file])

\* C10: outside the Terminate/drain handshake of its slot, every slot with a
\* non-empty handle has exactly one live worker, the one its handle names,
\* waiting on that slot's semaphore, and every live worker is the one named
\* by the handle of its slot.
C10_SlotsAndWorkers ==
  /\ \A s \in Slots :
       (children[s] # 0 /\ ~InHandshake(s)) =>
         /\ children[s] \in Pids
         /\ Live(children[s])
         /\ workers[children[s]].M_requests = s
         /\ Cardinality({p \in Pids : Live(p) /\ workers[p].M_requests = s}) = 1
  /\ \A p \in Pids :
       (Live(p) /\ ~InHandshake(workers[p].M_requests)) =>
         children[workers[p].M_requests] = p

\* the supervisor is in the final loop over the slots
InDrain == pc \in {"drain", "x_post", "x_wait", "x_waitpid"}
\* among the workers w, worker p has ended and its context has been
\* collected, after a summary with this end tick and this span
EndedWith(w, p, endTick, span) ==
  /\ w[p].pc = "reaped"
  /\ w[p].summary # <<>>
  /\ w[p].summary[1].endTick = endTick
  /\ w[p].summary[1].timeActive = span

AllObjects == [shm |-> TRUE, sems |-> Slots, ack |-> TRUE]
\* the supervisor is past its set-up and has not failed
Running == pc \notin {"start", "failed"}

\* C12: from the set-up to the end of the final loop the segment and the
\* M + 1 semaphores all exist; at the normal end none of them exists any
\* more and the supervisor holds none open; and whenever one of them has
\* been released every worker has ended.
C12_ReleasedAtNormalEnd ==
  /\ (Running /\ pc # "done") => (ipcObjects = AllObjects /\ ipcOpen)
  /\ pc = "done" => (ipcObjects = NoObjects /\ ~ipcOpen)
  /\ (Running /\ ipcObjects # AllObjects) =>
       \A p \in Pids : workers[p].pc \in {"exited", "reaped"}

\* a run with two workers has ended normally and released everything
C12_Witness ==
  /\ pc = "done"
  /\ Len(workers) >= 2
  /\ ipcObjects = NoObjects

\* C13: a run that has ended on a fatal condition has printed its
\* diagnostic and has left none of the named objects behind: neither the
\* segment nor any semaphore created before the failure exists any more.
C13_FailureReleasesAll ==
  pc = "failed" => (error # "" /\ ipcObjects = NoObjects /\ ~ipcOpen)

\* the configuration file has an EXIT record
HasQuit == \E k \in 1 .. Len(commands) : commands[k].command = "E"

\* C14: the run ends on the fatal "EXIT command not found" exactly when
\* the configuration has no EXIT record (a configuration with one never ends
\* this way, one without always does at the first step), and then no worker
\* has been created, no tick has been run and no named object exists.
C14_MissingQuitIff ==
  /\ pc # "start" => ((error = "EXIT command not found") <=> ~HasQuit)
  /\ error = "EXIT command not found" =>
       /\ pc = "failed"
       /\ workers = <<>>
       /\ hist.ticks = <<>>
       /\ ipcObjects = NoObjects /\ ~ipcOpen

\* the step of a Spawn below capacity that created its worker: the worker is
\* new, bound to the semaphore of the lowest free slot, with no line counted
\* and activated at this tick; that slot records the worker, the label and
\* the tick; the active count grows by one; no other slot changes
SpawnEffect ==
  LET slot == Min({s \in Slots : children[s] = 0})
      pid == Len(workers) + 1
  IN /\ \E s \in Slots : children[s] = 0
     /\ Len(workers') = pid
     /\ \A p \in Pids : workers'[p] = workers[p]
     /\ workers'[pid].pc = "wait"
     /\ workers'[pid].M_requests = slot
     /\ workers'[pid].lineCntr = 0
     /\ workers'[pid].activation_time = currTime
     /\ children' = [children EXCEPT ![slot] = pid]
     /\ childLabels' = [childLabels EXCEPT ![slot] = Cmd.processLabel]
     /\ childSemArr' = [childSemArr EXCEPT ![slot] = slot]
     /\ activationTime' = [activationTime EXCEPT ![slot] = currTime]
     /\ activeChildren' = activeChildren + 1
     /\ UNCHANGED <<terminationTime, ipcVars>>
     /\ pc' = "scan" /\ i' = NextEntry(i + 1, currTime)

\* C15 as stated: every Spawn applied at tick t below capacity takes the
\* lowest free slot, creates exactly one worker bound to that slot's
\* semaphore with no line counted, records label and activation tick t,
\* adds one to the active count and changes no other slot.
C15_SpawnBelowCapacity ==
  [][(AtEntry("S") /\ activeChildren < M /\ ParentStep) => SpawnEffect]_vars

\* C15 amended: a Spawn applied below capacity either does all of that, or,
\* when the creation of the worker fails, changes nothing at all.
C15_SpawnBelowCapacityUnlessForkFails ==
  [][(AtEntry("S") /\ activeChildren < M /\ ParentStep)
     => \/ SpawnEffect
        \/ /\ UNCHANGED <<tableVars, ipcVars, workers, warnings, error>>
           /\ pc' = "scan" /\ i' = NextEntry(i + 1, currTime)]_vars

\* a worker has been spawned into slot 0 while slot 1 was held by an older
\* worker
C15_Witness ==
  /\ M >= 2
  /\ children[1] > 0
  /\ children[0] > children[1]

\* the entries (1-based) stamped t, and those of them dealt with at tick t
Due(t) == {k \in 1 .. Len(commands) : commands[k].timestamp = t}
Handled(t) == {a.idx : a \in {x \in hist.applied \cup hist.skipped : x.tick = t}}
InTerminate == pc \in {"t_post", "t_wait", "t_waitpid"}

\* C16: within a tick the entries stamped with it are dealt with one by one
\* in file order: while the supervisor scans, exactly the entries before its
\* index have been dealt with; during a Terminate handshake the index stays
\* on that entry and nothing else is begun; the scan goes on only after the
\* acknowledgment was taken and the worker has ended; and the tick's line
\* delivery is made only when every entry of the tick has been dealt with.
C16_FileOrderWithinTick ==
  /\ [](/\ pc = "scan" => Handled(currTime) = {k \in Due(currTime) : k <= i}
        /\ InTerminate =>
             /\ Cmd.command = "T" /\ Cmd.timestamp = currTime
             /\ Handled(currTime) = {k \in Due(currTime) : k <= i + 1}
        /\ pc \in {"deliver", "d_post", "d_wait"} => Handled(currTime) = Due(currTime))
  /\ [][InTerminate => (i' = i /\ currTime' = currTime
                        /\ hist'.applied \cup hist'.skipped
                             = hist.applied \cup hist.skipped)
                       \/ (/\ pc = "t_waitpid" /\ pc' = "scan"
                           /\ hist.writes = hist.acks
                           /\ children[childIndx] \in Pids
                           /\ workers'[children[childIndx]].pc = "reaped"
                           /\ children'[childIndx] = 0)]_vars
  /\ [][hist'.tickDeliveries # hist.tickDeliveries /\ currTime' = currTime
          => /\ pc = "deliver"
             /\ Handled(currTime) = Due(currTime)
             /\ hist.writes = hist.acks]_vars

\* Spawn A, Terminate A, Spawn B, all of one tick, have been applied in this
\* order: B alone is active, in the slot A had, and the delivery is due
C16_Witness ==
  /\ pc = "deliver"
  /\ \E a, b, c \in Due(currTime) :
       /\ a < b /\ b < c
       /\ commands[a] = [timestamp |-> currTime, processLabel |-> "A", command |-> "S"]
       /\ commands[b] = [timestamp |-> currTime, processLabel |-> "A", command |-> "T"]
       /\ commands[c] = [timestamp |-> currTime, processLabel |-> "B", command |-> "S"]
       /\ Due(currTime) \ {Len(commands)} = {a, b, c}
  /\ activeChildren = 1
  /\ children = [s \in Slots |-> IF s = 0 THEN 2 ELSE 0]
  /\ childLabels[0] = "B"
  /\ workers[1].pc = "reaped"

\* the last message worker p of the workers w has logged
LastLogged(w, p) == w[p].log[Len(w[p].log)]

\* C17: a worker is Active (waiting on its semaphore or working on one
\* message) or Terminated. It leaves Active only by acknowledging a message
\* it read whose payload is the text TERMINATE; once Terminated it stays so,
\* and its steps touch no semaphore, count no line and log no message. A
\* Spawn never revives a worker: it adds a new one, Active, with no line
\* counted and activated at the tick of the Spawn, and leaves all others as
\* they are.
C17_WorkerTwoStates ==
  /\ [][\A p \in Pids :
          /\ (Live(p) /\ ~Live(p)') =>
               /\ workers[p].pc = "ackT"
               /\ workers[p].log # <<>>
               /\ LastLogged(workers, p).payload = TERMINATE
               /\ sharedMem.sharedSpace = TERMINATE
          /\ (workers[p].pc \in {"read", "ack"} /\ workers'[p] # workers[p]
                /\ LastLogged(workers', p).payload # TERMINATE) => Live(p)'
          /\ ~Live(p) =>
               /\ ~Live(p)'
               /\ workers'[p].lineCntr = workers[p].lineCntr
               /\ workers'[p].log = workers[p].log
               /\ workers'[p].endsInTimestamp = workers[p].endsInTimestamp
               /\ workers'[p].M_requests = workers[p].M_requests
               /\ workers'[p] # workers[p] =>
                    UNCHANGED <<semaphores, parentNotificationSemaphore, sharedMem>>]_vars
  /\ [][Len(workers') # Len(workers) =>
          /\ Len(workers') = Len(workers) + 1
          /\ \A p \in Pids : workers'[p] = workers[p]
          /\ workers'[Len(workers')].pc = "wait"
          /\ workers'[Len(workers')].lineCntr = 0
          /\ workers'[Len(workers')].activation_time = currTime
          /\ workers'[Len(workers')].summary = <<>>]_vars

\* a slot whose worker was Terminated holds a later worker, Active, that has
\* counted a line, while the first stays Terminated with its own count
C17_Witness ==
  \E p, q \in Pids :
    /\ p < q
    /\ workers[p].M_requests = workers[q].M_requests
    /\ ~Live(p) /\ workers[p].summary # <<>>
    /\ Live(q) /\ workers[q].lineCntr = 1
    /\ workers[q].activation_time > workers[p].activation_time

\* C18: a worker that read the TERMINATE message writes its summary (lines
\* received, span from the message's tick) before it posts the
\* acknowledgment: whenever that acknowledgment has been posted, and so
\* whenever the supervisor's wait for it has returned, the summary is there.
C18_SummaryBeforeAck ==
  /\ \A p \in Pids :
       (hist.lastSend.pid = p /\ hist.lastSend.payload = TERMINATE
          /\ hist.acks = hist.writes) =>
         /\ workers[p].summary # <<>>
         /\ workers[p].summary[1].endTick = hist.lastSend.tick
         /\ workers[p].summary[1].lines = workers[p].lineCntr
  /\ pc \in {"t_waitpid", "x_waitpid"} =>
       /\ hist.lastSend.pid \in Pids
       /\ workers[hist.lastSend.pid].summary # <<>>

\* C19: a slot's handle is emptied when its worker is ended, by a Terminate
\* as well as by the final loop: a slot the final loop has dealt with is
\* free, and at the normal end every slot is free and the active count is 0.
C19_SlotsFreeAtEnd ==
  /\ (pc = "drain" \/ pc = "done") => \A s \in Slots : s < i => children[s] = 0
  /\ pc = "done" => activeChildren = 0

\* what a worker alone writes: its line count, the tick it ended at, its log
Own(w, p) == <<w[p].lineCntr, w[p].endsInTimestamp, w[p].log, w[p].summary>>

\* C20: a step of a worker leaves the segment (text, timestamp, child index)
\* and the whole slot table as they are and changes the record of that one
\* worker only; a step of the supervisor leaves the line count, the end
\* tick, the log and the summary of every worker as they are.
C20_SingleWriter ==
  [][/\ ~ParentStep =>
          /\ UNCHANGED <<sharedMem, tableVars>>
          /\ Len(workers') = Len(workers)
          /\ Cardinality({p \in Pids : workers'[p] # workers[p]}) <= 1
     /\ ParentStep => \A p \in Pids : Own(workers', p) = Own(workers, p)]_vars

\* a worker has counted a line and then read a TERMINATE message written
\* by the supervisor at a later tick
C20_Witness ==
  \E p \in Pids :
    /\ workers[p].lineCntr >= 1
    /\ workers[p].pc = "ackT"
    /\ workers[p].endsInTimestamp > workers[p].activation_time
    /\ children[workers[p].M_requests] = p

\* the supervisor is blocked in sem_wait(parentNotificationSemaphore)
AwaitingAck == pc \in {"t_wait", "d_wait", "x_wait"}
\* worker p can take a step
CanStep(p) ==
  \/ workers[p].pc \in {"read", "ack", "ackT", "summary"}
  \/ workers[p].pc = "wait" /\ semaphores[workers[p].M_requests] > 0

\* C21: no deadlock. The supervisor never waits for an acknowledgment that
\* cannot come: whenever it is blocked on the acknowledgment semaphore, the
\* acknowledgment is there or some worker can still take a step towards
\* posting it (so that, with every worker running on, each send is
\* acknowledged and the run reaches its normal end).
C21_NoDeadlock ==
  AwaitingAck => (parentNotificationSemaphore > 0 \/ \E p \in Pids : CanStep(p))

\* the slot whose semaphore the supervisor is about to post
PostTarget == IF pc = "x_post" THEN i ELSE childIndx

\* C22: whenever the supervisor is about to post a per-slot semaphore (for a
\* line delivery, a Terminate or the final loop), that slot has a non-empty
\* handle and the worker it names is live, bound to that slot and waiting on
\* that semaphore; so a free slot is never signalled, whatever labels the
\* slots carry.
C22_PostTargetsWaitingWorker ==
  pc \in {"t_post", "d_post", "x_post"} =>
    /\ children[PostTarget] # 0
    /\ children[PostTarget] \in Pids
    /\ workers[children[PostTarget]].pc = "wait"
    /\ workers[children[PostTarget]].M_requests = PostTarget

RECURSIVE SumOver(_, _)
\* the sum of f over the finite set S
SumOver(f, S) ==
  IF S = {} THEN 0
  ELSE LET x == CHOOSE y \in S : TRUE IN f[x] + SumOver(f, S \ {x})

\* C23: every per-slot semaphore and the acknowledgment semaphore is 0 or
\* 1, at most one of the M + 1 is not 0, and whenever the supervisor scans
\* the entries of a tick (the only place where it spawns) the semaphore of
\* every free slot is 0, so a worker spawned into a reused slot finds no
\* signal left by the worker before it.
C23_SemaphoreBounds ==
  /\ \A s \in Slots : semaphores[s] \in {0, 1}
  /\ parentNotificationSemaphore \in {0, 1}
  /\ SumOver(semaphores, Slots) + parentNotificationSemaphore <= 1
  /\ pc = "scan" => \A s \in Slots : children[s] = 0 => semaphores[s] = 0
  /\ \A p \in Pids :
       (workers[p].pc = "wait" /\ workers[p].log = <<>>
          /\ ~(pc \in {"t_wait", "d_wait", "x_wait"} /\ hist.lastSend.slot = workers[p].M_requests))
         => semaphores[workers[p].M_requests] = 0

\* a worker spawned into a slot that an ended worker had held waits there,
\* with nothing received yet and the slot's semaphore at 0
C23_Witness ==
  /\ pc = "scan"
  /\ \E p, q \in Pids :
       /\ p < q
       /\ workers[p].M_requests = workers[q].M_requests
       /\ workers[p].pc = "reaped"
       /\ workers[p].lineCntr >= 1
       /\ workers[q].pc = "wait" /\ workers[q].log = <<>>
       /\ children[workers[q].M_requests] = q
       /\ semaphores[workers[q].M_requests] = 0

\* the supervisor is inside the tick loop
InTickLoop == pc \in {"scan", "t_post", "t_wait", "t_waitpid", "deliver", "d_post", "d_wait"}

\* C24: at every point of the tick loop the active count equals the number
\* of slots with a non-empty handle and lies between 0 and M.
C24_ActiveCountConsistent ==
  InTickLoop =>
    /\ activeChildren = Cardinality({s \in Slots : children[s] # 0})
    /\ 0 <= activeChildren /\ activeChildren <= M

\* a Terminate has found no slot, another has ended its worker, and one
\* slot is active when the delivery of the tick is due
C24_Witness ==
  /\ pc = "deliver"
  /\ warnings >= 1
  /\ activeChildren = 1
  /\ \E p \in Pids : workers[p].pc = "reaped"

\* the ticks of the lines worker p has logged, in the order it logged them
LineTicks(p) ==
  LET idx == {k \in 1 .. Len(workers[p].log) : workers[p].log[k].kind = "message"}
  IN [k \in idx |-> workers[p].log[k].tick]

\* C25: a worker receives at most one line per tick (the ticks of the lines
\* in its log increase strictly, starting no earlier than its activation
\* tick a, and there are as many as it has counted); when it has read the
\* TERMINATE message of a Terminate command of tick e it has counted at most
\* e - a lines, when it has read that of the final loop at most Q - a + 1;
\* and its summary reports the lines it has counted.
C25_DeliveryBound ==
  \A p \in Pids :
    LET w == workers[p]
        ticks == LineTicks(p)
    IN /\ Cardinality(DOMAIN ticks) = w.lineCntr
       /\ \A j, k \in DOMAIN ticks : j < k => ticks[j] < ticks[k]
       /\ \A k \in DOMAIN ticks : w.activation_time <= ticks[k]
       /\ w.pc = "ackT" =>
            /\ hist.lastSend.kind \in {"terminate", "line"} =>
                 w.lineCntr <= w.endsInTimestamp - w.activation_time
            /\ hist.lastSend.kind = "drain" =>
                 /\ w.endsInTimestamp = quitTimestamp
                 /\ w.lineCntr <= quitTimestamp - w.activation_time + 1
       /\ w.summary # <<>> =>
            /\ w.summary[1].lines = w.lineCntr
            /\ w.summary[1].lines <= w.summary[1].endTick - w.activation_time + 1

\* a worker ended by a Terminate command reports as many lines as there
\* were ticks from its activation to its termination, one at least
C25_Witness ==
  \E p \in Pids :
    /\ hist.lastSend.kind = "terminate" /\ hist.lastSend.pid = p
    /\ workers[p].summary # <<>>
    /\ workers[p].summary[1].lines >= 1
    /\ workers[p].summary[1].lines
         = workers[p].summary[1].endTick - workers[p].activation_time

====
